---- MODULE Spec2Model ----
(***************************************************************************)
(* Model of the watch-and-reconcile loop of src/main.go (the Ansible       *)
(* GitOps service): main's signal handling, watchForChanges, getGitHash,   *)
(* pullLatestChanges, checkAnsibleAvailability, runPlaybook and            *)
(* runCommandWithTimeout.                                                  *)
(*                                                                         *)
(* Two goroutines run: main (waits for a signal, cancels the context,      *)
(* sleeps one second, exits the process) and watchForChanges.  Every       *)
(* external command is a blocking step of the watch goroutine: the         *)
(* goroutine sits at a pc location while the child process runs.  A child  *)
(* process may complete with success, complete with failure, or never      *)
(* complete on its own (hung).  Revisions are opaque values compared by     *)
(* equality; git rev-parse may print any of them.                          *)
(***************************************************************************)
EXTENDS Integers, Sequences, FiniteSets, TLC

\* ---- bounds ----
NumRepos == 2
MaxListLen == 2
MaxRev == 2

Repos == 1..NumRepos
Revs == 1..MaxRev
NoRepo == 0
NoRev == 0

\* the configured repository lists: non-empty (Config.Validate), duplicates
\* allowed.  Repository paths are interchangeable names, so the lists are taken
\* up to renaming: a path is numbered by its first occurrence in the list.
RepoLists ==
  {l \in UNION {[1..n -> Repos] : n \in 1..MaxListLen} :
     /\ l[1] = 1
     /\ \A k \in 2..Len(l) : \E j \in 1..(k - 1) : l[k] <= l[j] + 1}

\* ---- configuration ----

\* c.WatchInterval < 10
MinInterval == 10
\* len(c.GitHubToken) < 40
MinTokenLen == 40
\* the commands of configureGit
NumGitConfigCmds == 3

\* a token of n characters
Tok(n) == [k \in 1..n |-> "x"]

\* the files os.Stat finds
Files == {"site.yml", "hosts.ini"}

PlaybookPaths == {"", "missing.yml", "site.yml"}
InventoryPaths == {"", "missing.ini", "hosts.ini"}
Intervals == {MinInterval - 1, MinInterval, 300}
Tokens == {Tok(0), Tok(MinTokenLen - 1), Tok(MinTokenLen)}

\* the assembled configurations (without WatchRepos)
Configs == [PlaybookPath : PlaybookPaths, InventoryPath : InventoryPaths,
            WatchInterval : Intervals, GitHubToken : Tokens]

\* fileExists
fileExists(path) == path \in Files

\* variant of Validate: the interval check is off by one (<= instead of <)
ValidateIntervalOffByOne(c, repos) ==
  IF c.PlaybookPath = "" THEN "playbook path is required"
  ELSE IF ~fileExists(c.PlaybookPath) THEN "playbook file does not exist"
  ELSE IF c.InventoryPath # "" /\ ~fileExists(c.InventoryPath)
    THEN "inventory file does not exist"
  ELSE IF c.WatchInterval <= MinInterval
    THEN "watch interval must be at least 10 seconds"
  ELSE IF Len(repos) = 0 THEN "at least one repository must be specified"
  ELSE IF c.GitHubToken = <<>> THEN "GitHub token is required"
  ELSE IF Len(c.GitHubToken) < MinTokenLen THEN "invalid GitHub token format"
  ELSE "nil"

\* Config.Validate: the error it returns ("nil" for none)
Validate(c, repos) ==
  IF c.PlaybookPath = "" THEN "playbook path is required"
  ELSE IF ~fileExists(c.PlaybookPath) THEN "playbook file does not exist"
  ELSE IF c.InventoryPath # "" /\ ~fileExists(c.InventoryPath)
    THEN "inventory file does not exist"
  ELSE IF c.WatchInterval < MinInterval
    THEN "watch interval must be at least 10 seconds"
  ELSE IF Len(repos) = 0 THEN "at least one repository must be specified"
  ELSE IF c.GitHubToken = <<>> THEN "GitHub token is required"
  ELSE IF Len(c.GitHubToken) < MinTokenLen THEN "invalid GitHub token format"
  ELSE "nil"

\* a configuration that passes Validate
BaseConfig == [PlaybookPath |-> "site.yml", InventoryPath |-> "",
               WatchInterval |-> MinInterval, GitHubToken |-> Tok(MinTokenLen)]

\* the number of fields in which two configurations differ
Differences(c, d) ==
  Cardinality({f \in DOMAIN c : c[f] # d[f]})

\* the configurations the process is started with: BaseConfig with any
\* repository list, and the configurations Validate rejects that differ from
\* it in one field (the empty repository list included)
StartConfigs ==
  {cr \in Configs \X (RepoLists \cup {<<>>}) :
     \/ cr[1] = BaseConfig
     \/ Differences(cr[1], BaseConfig) = 1 /\ cr[2] = <<1>>
          /\ Validate(cr[1], cr[2]) # "nil"}

VARIABLES
  WatchRepos,       \* config.WatchRepos
  config,           \* the other fields Validate reads: PlaybookPath, InventoryPath,
                    \* WatchInterval, GitHubToken
  validateErr,      \* error returned by config.Validate() ("unset" before the call)
  startupErr,       \* which log.Fatalf ended main: "none" | "config" | "ansible" | "git"
  cmdIdx,           \* configureGit: index of the git config command in flight
  mainPc,           \* main goroutine: "validate" | "start_probe_playbook" |
                    \* "start_probe_galaxy" | "configure_git" | "wait" | "sleep" |
                    \* "exit" (main returned) | "fatal" (log.Fatalf)
  ctxDone,          \* ctx.Done() of main's context is closed
  pc,               \* watchForChanges goroutine position ("notstarted" before the go statement)
  i,                \* index of the initial-state loop over config.WatchRepos
  repoStates,       \* map[string]string: function from tracked repositories to revisions
  todo,             \* keys the range over repoStates has not produced yet in this scan
  repo,             \* loop variable repo
  lastHash,         \* loop variable lastHash
  currentHash,      \* local currentHash
  changesDetected,  \* local changesDetected
  tickerC,          \* ticker.C holds a tick (channel of capacity 1)
  procState,        \* child process: "none" | "running" | "exited" | "reaped" | "killed"
  hung,             \* the running child process never completes on its own
  exitCode,         \* exit status of the child once exited
  deadlineArmed,    \* a context.WithTimeout is live for the running command
  timerFired,       \* that context's Done() is closed
  result,           \* error returned by the last runCommandWithTimeout
  \* observations of the current (or last) tick
  checked,          \* repositories whose check was started in this tick
  changed,          \* repositories whose resolved revision differed from the stored one
  failed,           \* repositories whose check failed in this tick
  prevFailed,       \* repositories whose check failed in the tick before this one
  runs,             \* number of runPlaybook invocations in this tick
  snap,             \* repoStates when the tick started
  tickEnd,          \* "none" | "open" | "skipped" | "cancelled" | "scanned"
  \* observations carried from one tick to the next
  prevRunFailed,    \* the tick before this one ended in a failed runPlaybook and
                    \* this tick has not detected a change (nor been cut short)
  dropped           \* a firing of the ticker during this tick found ticker.C full

cfgVars == <<WatchRepos, config>>
startVars == <<validateErr, startupErr, cmdIdx>>
mainVars == <<mainPc, ctxDone>>
loopVars == <<i, repoStates, todo, repo, lastHash, currentHash, changesDetected>>
procVars == <<procState, hung, exitCode, deadlineArmed, timerFired, result>>
obsVars == <<checked, changed, failed, prevFailed, runs, snap, tickEnd>>
histVars == <<prevRunFailed, dropped>>
vars == <<WatchRepos, config, validateErr, startupErr, cmdIdx, mainPc, ctxDone,
          pc, i, repoStates, todo, repo, lastHash, currentHash, changesDetected, tickerC, procState, hung, exitCode,
          deadlineArmed, timerFired, result, checked, changed, failed,
          prevFailed, runs, snap, tickEnd,
         prevRunFailed, dropped>>

\* the empty map
EmptyMap == [r \in {} |-> NoRev]

\* repoStates[r] = h
MapSet(m, r, h) == [k \in (DOMAIN m) \cup {r} |-> IF k = r THEN h ELSE m[k]]

\* the process is alive: main has neither returned nor called log.Fatalf
Alive == mainPc \notin {"exit", "fatal"}

\* pc locations at which the watch goroutine blocks on exec.Cmd Run/Output/CombinedOutput
UntimedLocs == {"init_checkout", "init_revparse", "probe_playbook", "probe_galaxy",
                "pull_checkout", "pull_pull", "hash_checkout", "hash_revparse"}

\* an untimed command can return: its child is running and not hung
CanReturn(loc) == Alive /\ pc = loc /\ procState = "running" /\ ~hung

\* everything but the configuration, at process start
InitRest ==
  /\ validateErr = "unset"
  /\ startupErr = "none"
  /\ cmdIdx = 0
  /\ mainPc = "validate"
  /\ ctxDone = FALSE
  /\ pc = "notstarted"
  /\ i = 1
  /\ repoStates = EmptyMap
  /\ todo = {}
  /\ repo = NoRepo
  /\ lastHash = NoRev
  /\ currentHash = NoRev
  /\ changesDetected = FALSE
  /\ tickerC = FALSE
  /\ procState = "none"
  /\ hung = FALSE
  /\ exitCode = 0
  /\ deadlineArmed = FALSE
  /\ timerFired = FALSE
  /\ result = "none"
  /\ checked = {}
  /\ changed = {}
  /\ failed = {}
  /\ prevFailed = {}
  /\ runs = 0
  /\ snap = EmptyMap
  /\ tickEnd = "none"
  /\ prevRunFailed = FALSE
  /\ dropped = FALSE

Init ==
  /\ \E cr \in StartConfigs : config = cr[1] /\ WatchRepos = cr[2]
  /\ InitRest

\* the state in which Config.Validate is called with any assembled configuration
InitValidate ==
  /\ \E cr \in Configs \X (RepoLists \cup {<<>>}) :
       config = cr[1] /\ WatchRepos = cr[2]
  /\ InitRest

\* ---- main goroutine ----

\* the exit status of the process: log.Fatalf exits with 1, a return from main
\* with 0 (-1 while the process runs)
ExitStatus == IF mainPc = "fatal" THEN 1 ELSE IF mainPc = "exit" THEN 0 ELSE -1

\* mainPc locations at which main blocks on exec.Cmd Run/CombinedOutput
MainCmdLocs == {"start_probe_playbook", "start_probe_galaxy", "configure_git"}

\* a startup command of main can return: its child is running and not hung
MainCanReturn(loc) == mainPc = loc /\ procState = "running" /\ ~hung

\* variant of ValidateFail: the error is logged and main goes on
ValidateFailLogged ==
  /\ mainPc = "validate"
  /\ Validate(config, WatchRepos) # "nil"
  /\ validateErr' = Validate(config, WatchRepos)
  /\ mainPc' = "start_probe_playbook"
  /\ procState' = "running"
  /\ UNCHANGED <<cfgVars, startupErr, cmdIdx, ctxDone, pc, loopVars, tickerC, hung,
                 exitCode, deadlineArmed, timerFired, result, obsVars, histVars>>

\* config.Validate() returned an error: log.Fatalf("Configuration error")
ValidateFail ==
  /\ mainPc = "validate"
  /\ Validate(config, WatchRepos) # "nil"
  /\ validateErr' = Validate(config, WatchRepos)
  /\ startupErr' = "config"
  /\ mainPc' = "fatal"
  /\ UNCHANGED <<cfgVars, cmdIdx, ctxDone, pc, loopVars, tickerC, procVars, obsVars, histVars>>

\* config.Validate() returned nil; checkAnsibleAvailability starts
\* ansible-playbook --version
ValidateOk ==
  /\ mainPc = "validate"
  /\ Validate(config, WatchRepos) = "nil"
  /\ validateErr' = "nil"
  /\ mainPc' = "start_probe_playbook"
  /\ procState' = "running"
  /\ UNCHANGED <<cfgVars, startupErr, cmdIdx, ctxDone, pc, loopVars, tickerC, hung,
                 exitCode, deadlineArmed, timerFired, result, obsVars, histVars>>

\* checkAnsibleAvailability returned an error: log.Fatalf("Ansible not available")
StartProbeFailed(loc) ==
  /\ MainCanReturn(loc)
  /\ procState' = "none"
  /\ startupErr' = "ansible"
  /\ mainPc' = "fatal"
  /\ UNCHANGED <<cfgVars, validateErr, cmdIdx, ctxDone, pc, loopVars, tickerC, hung,
                 exitCode, deadlineArmed, timerFired, result, obsVars, histVars>>

\* ansible-playbook --version failed
StartProbePlaybookFail == StartProbeFailed("start_probe_playbook")

\* ansible-playbook --version succeeded; ansible-galaxy --version starts
StartProbePlaybookOk ==
  /\ MainCanReturn("start_probe_playbook")
  /\ mainPc' = "start_probe_galaxy"
  /\ UNCHANGED <<cfgVars, startVars, ctxDone, pc, loopVars, tickerC, procVars, obsVars, histVars>>

\* ansible-galaxy --version failed
StartProbeGalaxyFail == StartProbeFailed("start_probe_galaxy")

\* the probe succeeded; configureGit starts its first git config command
StartProbeGalaxyOk ==
  /\ MainCanReturn("start_probe_galaxy")
  /\ mainPc' = "configure_git"
  /\ cmdIdx' = 1
  /\ UNCHANGED <<cfgVars, validateErr, startupErr, ctxDone, pc, loopVars, tickerC,
                 procVars, obsVars, histVars>>

\* configureGit: a git config command failed: log.Fatalf("Git configuration error")
ConfigureGitFail ==
  /\ MainCanReturn("configure_git")
  /\ procState' = "none"
  /\ cmdIdx' = 0
  /\ startupErr' = "git"
  /\ mainPc' = "fatal"
  /\ UNCHANGED <<cfgVars, validateErr, ctxDone, pc, loopVars, tickerC, hung,
                 exitCode, deadlineArmed, timerFired, result, obsVars, histVars>>

\* configureGit: a git config command succeeded and the next one starts
ConfigureGitNext ==
  /\ MainCanReturn("configure_git")
  /\ cmdIdx < NumGitConfigCmds
  /\ cmdIdx' = cmdIdx + 1
  /\ UNCHANGED <<cfgVars, validateErr, startupErr, mainVars, pc, loopVars, tickerC,
                 procVars, obsVars, histVars>>

\* configureGit returned nil; context.WithCancel, signal.Notify,
\* go watchForChanges(ctx, config); main waits on sigChan
StartWatch ==
  /\ MainCanReturn("configure_git")
  /\ cmdIdx = NumGitConfigCmds
  /\ cmdIdx' = 0
  /\ procState' = "none"
  /\ mainPc' = "wait"
  /\ pc' = "init"
  /\ UNCHANGED <<cfgVars, validateErr, startupErr, ctxDone, loopVars, tickerC, hung,
                 exitCode, deadlineArmed, timerFired, result, obsVars, histVars>>

\* variant of Shutdown: main goes to its sleep without calling cancel()
ShutdownWithoutCancel ==
  /\ mainPc = "wait"
  /\ mainPc' = "sleep"
  /\ UNCHANGED <<cfgVars, startVars, ctxDone, pc, loopVars, tickerC, procVars,
                 obsVars, histVars>>

\* <-sigChan; cancel()
Shutdown ==
  /\ mainPc = "wait"
  /\ mainPc' = "sleep"
  /\ ctxDone' = TRUE
  /\ UNCHANGED <<cfgVars, startVars, pc, loopVars, tickerC, procVars, obsVars, histVars>>

\* time.Sleep(time.Second) is over; main returns and the process ends
MainExit ==
  /\ mainPc = "sleep"
  /\ mainPc' = "exit"
  /\ UNCHANGED <<cfgVars, startVars, ctxDone, pc, loopVars, tickerC, procVars, obsVars, histVars>>

\* ---- child processes of untimed commands ----

\* the running child never completes on its own
Hang ==
  /\ Alive
  /\ procState = "running"
  /\ ~hung
  /\ hung' = TRUE
  /\ UNCHANGED <<cfgVars, startVars, mainVars, pc, loopVars, tickerC, procState,
                 exitCode, deadlineArmed, timerFired, result, obsVars, histVars>>

\* ---- watchForChanges: initial states ----

\* for _, repo := range config.WatchRepos { getGitHash(repo, ...): git checkout starts
InitNext ==
  /\ Alive
  /\ pc = "init"
  /\ i <= Len(WatchRepos)
  /\ repo' = WatchRepos[i]
  /\ pc' = "init_checkout"
  /\ procState' = "running"
  /\ UNCHANGED <<cfgVars, startVars, mainVars, i, repoStates, todo, lastHash, currentHash,
                 changesDetected, tickerC, hung, exitCode, deadlineArmed,
                 timerFired, result, obsVars, histVars>>

\* the initial getGitHash returned an error: log and continue with the next
\* repository (the loop variable of the iteration goes out of scope)
InitLookupFailed(loc) ==
  /\ CanReturn(loc)
  /\ procState' = "none"
  /\ i' = i + 1
  /\ repo' = NoRepo
  /\ pc' = "init"
  /\ UNCHANGED <<cfgVars, startVars, mainVars, repoStates, todo, lastHash, currentHash,
                 changesDetected, tickerC, hung, exitCode, deadlineArmed,
                 timerFired, result, obsVars, histVars>>

\* getGitHash: git checkout failed
InitCheckoutFail == InitLookupFailed("init_checkout")

\* getGitHash: git checkout succeeded; git rev-parse HEAD starts
InitCheckoutOk ==
  /\ CanReturn("init_checkout")
  /\ pc' = "init_revparse"
  /\ UNCHANGED <<cfgVars, startVars, mainVars, loopVars, tickerC, procVars, obsVars, histVars>>

\* getGitHash: git rev-parse failed
InitRevParseFail == InitLookupFailed("init_revparse")

\* getGitHash returned a hash: repoStates[repo] = hash
InitRevParseOk ==
  /\ CanReturn("init_revparse")
  /\ procState' = "none"
  /\ \E hash \in Revs : repoStates' = MapSet(repoStates, repo, hash)
  /\ i' = i + 1
  /\ repo' = NoRepo
  /\ pc' = "init"
  /\ UNCHANGED <<cfgVars, startVars, mainVars, todo, lastHash, currentHash,
                 changesDetected, tickerC, hung, exitCode, deadlineArmed,
                 timerFired, result, obsVars, histVars>>

\* the initial loop is over: ticker := time.NewTicker(...); enter the for/select
InitDone ==
  /\ Alive
  /\ pc = "init"
  /\ i > Len(WatchRepos)
  /\ pc' = "select"
  /\ UNCHANGED <<cfgVars, startVars, mainVars, loopVars, tickerC, procVars, obsVars, histVars>>

\* ---- watchForChanges: the for/select loop ----

\* variant of TickerFire: ticker.C has no buffer, so a firing is delivered only
\* to a loop waiting in the select
TickerFireUnbuffered ==
  /\ Alive
  /\ pc \notin {"notstarted", "init", "init_checkout", "init_revparse", "stopped"}
  /\ tickerC' = (pc = "select")
  /\ dropped' = (dropped \/ pc # "select")
  /\ UNCHANGED prevRunFailed
  /\ UNCHANGED <<cfgVars, startVars, mainVars, pc, loopVars, procVars, obsVars>>

\* the ticker fires; ticker.C has capacity 1 and a tick that finds it full is dropped
TickerFire ==
  /\ Alive
  /\ pc \notin {"notstarted", "init", "init_checkout", "init_revparse", "stopped"}
  /\ tickerC' = TRUE
  /\ dropped' = (dropped \/ (tickerC /\ pc # "select"))
  /\ UNCHANGED prevRunFailed
  /\ UNCHANGED <<cfgVars, startVars, mainVars, pc, loopVars, procVars, obsVars>>

\* case <-ctx.Done(): return
StopLoop ==
  /\ Alive
  /\ pc = "select"
  /\ ctxDone
  /\ pc' = "stopped"
  /\ UNCHANGED <<cfgVars, startVars, mainVars, loopVars, tickerC, procVars, obsVars, histVars>>

\* case <-ticker.C: checkAnsibleAvailability() starts ansible-playbook --version
\* (a new child process; the observations of the previous tick are dropped)
Tick ==
  /\ Alive
  /\ pc = "select"
  /\ tickerC
  /\ tickerC' = FALSE
  /\ pc' = "probe_playbook"
  /\ procState' = "running"
  /\ result' = "none"
  /\ checked' = {}
  /\ changed' = {}
  /\ failed' = {}
  /\ prevFailed' = failed
  /\ runs' = 0
  /\ snap' = repoStates
  /\ tickEnd' = "open"
  /\ prevRunFailed' = (result \notin {"none", "nil"})
  /\ dropped' = FALSE
  /\ exitCode' = 0
  /\ UNCHANGED <<cfgVars, startVars, mainVars, loopVars, hung, deadlineArmed, timerFired>>

\* variant of ProbeFailed: the warning is logged but the continue is missing, so
\* the tick goes on to the scan
ProbeFailedFallsThrough(loc) ==
  /\ CanReturn(loc)
  /\ procState' = "none"
  /\ changesDetected' = FALSE
  /\ todo' = DOMAIN repoStates
  /\ pc' = "scan"
  /\ tickEnd' = "skipped"
  /\ prevRunFailed' = FALSE
  /\ UNCHANGED <<cfgVars, startVars, mainVars, i, repoStates, repo, lastHash, currentHash,
                 tickerC, hung, exitCode, deadlineArmed, timerFired, result,
                 checked, changed, failed, prevFailed, runs, snap, dropped>>

\* checkAnsibleAvailability failed: log the warning and continue the outer loop
ProbeFailed(loc) ==
  /\ CanReturn(loc)
  /\ procState' = "none"
  /\ pc' = "select"
  /\ tickEnd' = "skipped"
  /\ prevRunFailed' = FALSE
  /\ UNCHANGED <<cfgVars, startVars, mainVars, loopVars, tickerC, hung, exitCode,
                 deadlineArmed, timerFired, result, checked, changed, failed,
                 prevFailed, runs, snap, dropped>>

\* ansible-playbook --version failed
ProbePlaybookFail == ProbeFailed("probe_playbook")

\* ansible-playbook --version succeeded; ansible-galaxy --version starts
ProbePlaybookOk ==
  /\ CanReturn("probe_playbook")
  /\ pc' = "probe_galaxy"
  /\ UNCHANGED <<cfgVars, startVars, mainVars, loopVars, tickerC, procVars, obsVars, histVars>>

\* ansible-galaxy --version failed
ProbeGalaxyFail == ProbeFailed("probe_galaxy")

\* variant of ProbeGalaxyOk: after a failed playbook run the tick starts with
\* changesDetected set, so that the run is tried again
ProbeGalaxyOkRetriesRun ==
  /\ CanReturn("probe_galaxy")
  /\ procState' = "none"
  /\ changesDetected' = prevRunFailed
  /\ todo' = DOMAIN repoStates
  /\ pc' = "scan"
  /\ UNCHANGED <<cfgVars, startVars, mainVars, i, repoStates, repo, lastHash, currentHash,
                 tickerC, hung, exitCode, deadlineArmed, timerFired, result,
                 obsVars, histVars>>

\* the probe succeeded: changesDetected := false; the range over repoStates begins
ProbeGalaxyOk ==
  /\ CanReturn("probe_galaxy")
  /\ procState' = "none"
  /\ changesDetected' = FALSE
  /\ todo' = DOMAIN repoStates
  /\ pc' = "scan"
  /\ UNCHANGED <<cfgVars, startVars, mainVars, i, repoStates, repo, lastHash, currentHash,
                 tickerC, hung, exitCode, deadlineArmed, timerFired, result,
                 obsVars, histVars>>

\* variant of ScanCancelled: ctx.Done() is also looked at when the range loop
\* has ended, before the playbook is run
ScanCancelledAfterLast ==
  /\ Alive
  /\ pc = "scan"
  /\ ctxDone
  /\ pc' = "stopped"
  /\ tickEnd' = "cancelled"
  /\ prevRunFailed' = FALSE
  /\ UNCHANGED <<cfgVars, startVars, mainVars, loopVars, tickerC, procVars,
                 checked, changed, failed, prevFailed, runs, snap, dropped>>

\* inner select, case <-ctx.Done(): return
ScanCancelled ==
  /\ Alive
  /\ pc = "scan"
  /\ todo # {}
  /\ ctxDone
  /\ pc' = "stopped"
  /\ tickEnd' = "cancelled"
  /\ prevRunFailed' = FALSE
  /\ UNCHANGED <<cfgVars, startVars, mainVars, loopVars, tickerC, procVars,
                 checked, changed, failed, prevFailed, runs, snap, dropped>>

\* variant of ScanNext: the range loop may produce a key again
ScanNextKeepsKey ==
  /\ Alive
  /\ pc = "scan"
  /\ ~ctxDone
  /\ \E r \in todo :
       /\ repo' = r
       /\ lastHash' = repoStates[r]
       /\ todo' = todo
       /\ checked' = checked \cup {r}
  /\ pc' = "pull_checkout"
  /\ procState' = "running"
  /\ UNCHANGED <<cfgVars, startVars, mainVars, i, repoStates, currentHash,
                 changesDetected, tickerC, hung, exitCode, deadlineArmed,
                 timerFired, result, changed, failed, prevFailed, runs, snap,
                 tickEnd, histVars>>

\* variant of ScanNext: the iteration does not look at ctx.Done()
ScanNextIgnoresCancel ==
  /\ Alive
  /\ pc = "scan"
  /\ \E r \in todo :
       /\ repo' = r
       /\ lastHash' = repoStates[r]
       /\ todo' = todo \ {r}
       /\ checked' = checked \cup {r}
  /\ pc' = "pull_checkout"
  /\ procState' = "running"
  /\ UNCHANGED <<cfgVars, startVars, mainVars, i, repoStates, currentHash,
                 changesDetected, tickerC, hung, exitCode, deadlineArmed,
                 timerFired, result, changed, failed, prevFailed, runs, snap,
                 tickEnd, histVars>>

\* inner select, default: the range produces the next key (in no fixed order);
\* pullLatestChanges starts git checkout
ScanNext ==
  /\ Alive
  /\ pc = "scan"
  /\ ~ctxDone
  /\ \E r \in todo :
       /\ repo' = r
       /\ lastHash' = repoStates[r]
       /\ todo' = todo \ {r}
       /\ checked' = checked \cup {r}
  /\ pc' = "pull_checkout"
  /\ procState' = "running"
  /\ UNCHANGED <<cfgVars, startVars, mainVars, i, repoStates, currentHash,
                 changesDetected, tickerC, hung, exitCode, deadlineArmed,
                 timerFired, result, changed, failed, prevFailed, runs, snap,
                 tickEnd, histVars>>

\* variant of CheckFailed: the error leaves the range (break instead of continue)
CheckFailedAborts(loc) ==
  /\ CanReturn(loc)
  /\ procState' = "none"
  /\ failed' = failed \cup {repo}
  /\ todo' = {}
  /\ repo' = NoRepo
  /\ lastHash' = NoRev
  /\ pc' = "scan"
  /\ UNCHANGED <<cfgVars, startVars, mainVars, i, repoStates, currentHash,
                 changesDetected, tickerC, hung, exitCode, deadlineArmed,
                 timerFired, result, checked, changed, prevFailed, runs, snap,
                 tickEnd, histVars>>

\* variant of CheckFailed: the error path marks the tick as changed
CheckFailedMarksChanged(loc) ==
  /\ CanReturn(loc)
  /\ procState' = "none"
  /\ failed' = failed \cup {repo}
  /\ changesDetected' = TRUE
  /\ repo' = NoRepo
  /\ lastHash' = NoRev
  /\ pc' = "scan"
  /\ UNCHANGED <<cfgVars, startVars, mainVars, i, repoStates, todo, currentHash,
                 tickerC, hung, exitCode, deadlineArmed, timerFired, result,
                 checked, changed, prevFailed, runs, snap, tickEnd, histVars>>

\* variant of CheckFailed: a repository whose check fails is deleted from the map
CheckFailedDeletes(loc) ==
  /\ CanReturn(loc)
  /\ procState' = "none"
  /\ failed' = failed \cup {repo}
  /\ repoStates' = [k \in (DOMAIN repoStates) \ {repo} |-> repoStates[k]]
  /\ repo' = NoRepo
  /\ lastHash' = NoRev
  /\ pc' = "scan"
  /\ UNCHANGED <<cfgVars, startVars, mainVars, i, todo, currentHash,
                 changesDetected, tickerC, hung, exitCode, deadlineArmed,
                 timerFired, result, checked, changed, prevFailed, runs, snap,
                 tickEnd, histVars>>

\* a step of the check of repo returned an error: log and continue the range
\* (the loop variables of the iteration go out of scope)
CheckFailed(loc) ==
  /\ CanReturn(loc)
  /\ procState' = "none"
  /\ failed' = failed \cup {repo}
  /\ repo' = NoRepo
  /\ lastHash' = NoRev
  /\ pc' = "scan"
  /\ UNCHANGED <<cfgVars, startVars, mainVars, i, repoStates, todo, currentHash,
                 changesDetected, tickerC, hung, exitCode, deadlineArmed,
                 timerFired, result, checked, changed, prevFailed, runs, snap,
                 tickEnd, histVars>>

\* pullLatestChanges: git checkout failed
PullCheckoutFail == CheckFailed("pull_checkout")

\* pullLatestChanges: git checkout succeeded; git pull origin starts
PullCheckoutOk ==
  /\ CanReturn("pull_checkout")
  /\ pc' = "pull_pull"
  /\ UNCHANGED <<cfgVars, startVars, mainVars, loopVars, tickerC, procVars, obsVars, histVars>>

\* pullLatestChanges: git pull failed
PullFail == CheckFailed("pull_pull")

\* pullLatestChanges: git pull succeeded; getGitHash starts git checkout
PullOk ==
  /\ CanReturn("pull_pull")
  /\ pc' = "hash_checkout"
  /\ UNCHANGED <<cfgVars, startVars, mainVars, loopVars, tickerC, procVars, obsVars, histVars>>

\* getGitHash: git checkout failed
HashCheckoutFail == CheckFailed("hash_checkout")

\* getGitHash: git checkout succeeded; git rev-parse HEAD starts
HashCheckoutOk ==
  /\ CanReturn("hash_checkout")
  /\ pc' = "hash_revparse"
  /\ UNCHANGED <<cfgVars, startVars, mainVars, loopVars, tickerC, procVars, obsVars, histVars>>

\* getGitHash: git rev-parse failed
HashRevParseFail == CheckFailed("hash_revparse")

\* currentHash, err := getGitHash(...): rev-parse printed the head of the branch,
\* which is whatever the pull (or anything else) left in the working copy
HashRevParseOk ==
  /\ CanReturn("hash_revparse")
  /\ procState' = "none"
  /\ \E hash \in Revs : currentHash' = hash
  /\ pc' = "compare"
  /\ UNCHANGED <<cfgVars, startVars, mainVars, i, repoStates, todo, repo, lastHash,
                 changesDetected, tickerC, hung, exitCode, deadlineArmed,
                 timerFired, result, obsVars, histVars>>

\* variant of HashDiffers: every resolved revision counts as a change
HashAlwaysDiffers(current, last) == TRUE

\* currentHash != lastHash
HashDiffers(current, last) == current # last

\* variant of Compare: the change is flagged but the new revision is not stored
CompareNoStore ==
  /\ Alive
  /\ pc = "compare"
  /\ IF HashDiffers(currentHash, lastHash)
       THEN changesDetected' = TRUE
       ELSE UNCHANGED changesDetected
  /\ changed' = IF currentHash # repoStates[repo]
                  THEN changed \cup {repo} ELSE changed
  /\ repo' = NoRepo
  /\ lastHash' = NoRev
  /\ currentHash' = NoRev
  /\ pc' = "scan"
  /\ prevRunFailed' = (prevRunFailed /\ ~HashDiffers(currentHash, lastHash))
  /\ UNCHANGED <<cfgVars, startVars, mainVars, i, repoStates, todo, tickerC, procVars,
                 checked, failed, prevFailed, runs, snap, tickEnd, dropped>>

\* if currentHash != lastHash { changesDetected = true; repoStates[repo] =
\* currentHash } else { log }; the iteration ends and its variables go out of scope
Compare ==
  /\ Alive
  /\ pc = "compare"
  /\ IF HashDiffers(currentHash, lastHash)
       THEN /\ changesDetected' = TRUE
            /\ repoStates' = [repoStates EXCEPT ![repo] = currentHash]
       ELSE UNCHANGED <<changesDetected, repoStates>>
  /\ changed' = IF currentHash # repoStates[repo]
                  THEN changed \cup {repo} ELSE changed
  /\ repo' = NoRepo
  /\ lastHash' = NoRev
  /\ currentHash' = NoRev
  /\ pc' = "scan"
  /\ prevRunFailed' = (prevRunFailed /\ ~HashDiffers(currentHash, lastHash))
  /\ UNCHANGED <<cfgVars, startVars, mainVars, i, todo, tickerC, procVars,
                 checked, failed, prevFailed, runs, snap, tickEnd, dropped>>

\* variant of NoChanges: the tick ends without looking at changesDetected
NoChangesIgnoringFlag ==
  /\ Alive
  /\ pc = "scan"
  /\ todo = {}
  /\ pc' = "select"
  /\ tickEnd' = "scanned"
  /\ UNCHANGED <<cfgVars, startVars, mainVars, loopVars, tickerC, procVars,
                 checked, changed, failed, prevFailed, runs, snap, histVars>>

\* the range is over and changesDetected is false: back to the select
NoChanges ==
  /\ Alive
  /\ pc = "scan"
  /\ todo = {}
  /\ ~changesDetected
  /\ pc' = "select"
  /\ tickEnd' = "scanned"
  /\ UNCHANGED <<cfgVars, startVars, mainVars, loopVars, tickerC, procVars,
                 checked, changed, failed, prevFailed, runs, snap, histVars>>

\* variant of RunPlaybook: the playbook runs at the end of every scan
RunPlaybookUnconditional ==
  /\ Alive
  /\ pc = "scan"
  /\ todo = {}
  /\ runs' = runs + 1
  /\ tickEnd' = "scanned"
  /\ deadlineArmed' = TRUE
  /\ timerFired' = FALSE
  /\ pc' = "rcwt_start"
  /\ prevRunFailed' = FALSE
  /\ UNCHANGED <<cfgVars, startVars, mainVars, loopVars, tickerC, procState, hung,
                 exitCode, result, checked, changed, failed, prevFailed, snap, dropped>>

\* variant of RunPlaybook: the playbook is started as soon as a change is seen,
\* inside the range loop
RunPlaybookMidScan ==
  /\ Alive
  /\ pc = "scan"
  /\ changesDetected
  /\ runs' = runs + 1
  /\ tickEnd' = "scanned"
  /\ deadlineArmed' = TRUE
  /\ timerFired' = FALSE
  /\ pc' = "rcwt_start"
  /\ prevRunFailed' = FALSE
  /\ UNCHANGED <<cfgVars, startVars, mainVars, loopVars, tickerC, procState, hung,
                 exitCode, result, checked, changed, failed, prevFailed, snap, dropped>>

\* the range is over and changesDetected is true: runPlaybook(config) calls
\* runCommandWithTimeout(cmd, 30*time.Minute), which arms context.WithTimeout
RunPlaybook ==
  /\ Alive
  /\ pc = "scan"
  /\ todo = {}
  /\ changesDetected
  /\ runs' = runs + 1
  /\ tickEnd' = "scanned"
  /\ deadlineArmed' = TRUE
  /\ timerFired' = FALSE
  /\ pc' = "rcwt_start"
  /\ prevRunFailed' = FALSE
  /\ UNCHANGED <<cfgVars, startVars, mainVars, loopVars, tickerC, procState, hung,
                 exitCode, result, checked, changed, failed, prevFailed, snap, dropped>>

\* ---- runCommandWithTimeout (called by runPlaybook) ----

\* variant of RcwtReturn: an error of the playbook run ends the watch loop
RcwtReturnStopsOnError(e) ==
  /\ result' = e
  /\ deadlineArmed' = FALSE
  /\ timerFired' = FALSE
  /\ hung' = FALSE
  /\ pc' = IF e = "nil" THEN "select" ELSE "stopped"

\* return from runCommandWithTimeout with error e: the deferred cancel() releases the
\* timeout context, runPlaybook returns e, watchForChanges logs it and loops
RcwtReturn(e) ==
  /\ result' = e
  /\ deadlineArmed' = FALSE
  /\ timerFired' = FALSE
  /\ hung' = FALSE
  /\ pc' = "select"

\* cmd.Start() failed: "failed to start command"
RcwtStartFail ==
  /\ Alive
  /\ pc = "rcwt_start"
  /\ RcwtReturn("start")
  /\ procState' = "none"
  /\ UNCHANGED <<cfgVars, startVars, mainVars, loopVars, tickerC, exitCode, obsVars, histVars>>

\* cmd.Start() succeeded; the goroutine calling cmd.Wait() is started and the
\* caller blocks in the select
RcwtStartOk ==
  /\ Alive
  /\ pc = "rcwt_start"
  /\ procState' = "running"
  /\ pc' = "rcwt_select"
  /\ UNCHANGED <<cfgVars, startVars, mainVars, loopVars, tickerC, hung, exitCode,
                 deadlineArmed, timerFired, result, obsVars, histVars>>

\* the child process exits on its own with status 0 or non-zero
ProcExit ==
  /\ Alive
  /\ pc = "rcwt_select"
  /\ procState = "running"
  /\ ~hung
  /\ procState' = "exited"
  /\ \E c \in {0, 1} : exitCode' = c
  /\ UNCHANGED <<cfgVars, startVars, mainVars, pc, loopVars, tickerC, hung,
                 deadlineArmed, timerFired, result, obsVars, histVars>>

\* go func() { done <- cmd.Wait() }(): Wait reaps the exited child and its result
\* is in the done channel
WaitReturns ==
  /\ Alive
  /\ pc = "rcwt_select"
  /\ procState = "exited"
  /\ procState' = "reaped"
  /\ UNCHANGED <<cfgVars, startVars, mainVars, pc, loopVars, tickerC, hung,
                 exitCode, deadlineArmed, timerFired, result, obsVars, histVars>>

\* the timeout of context.WithTimeout elapses: ctx.Done() is closed
DeadlineElapses ==
  /\ Alive
  /\ deadlineArmed
  /\ ~timerFired
  /\ timerFired' = TRUE
  /\ UNCHANGED <<cfgVars, startVars, mainVars, pc, loopVars, tickerC, procState,
                 hung, exitCode, deadlineArmed, obsVars, result, histVars>>

\* the error cmd.Wait() returns for an exit status
WaitErr(code) == IF code = 0 THEN "nil" ELSE "exit"

\* case err := <-done: return err
SelectDone ==
  /\ Alive
  /\ pc = "rcwt_select"
  /\ procState = "reaped"
  /\ RcwtReturn(WaitErr(exitCode))
  /\ UNCHANGED <<cfgVars, startVars, mainVars, loopVars, tickerC, procState,
                 exitCode, obsVars, histVars>>

\* cmd.Process.Kill() fails exactly when the process has already been waited for
KillFails(ps) == ps = "reaped"

\* variant of KillProcess: the process is not killed
KillOmitted(ps) == ps

\* the state of the child after cmd.Process.Kill()
KillProcess(ps) == IF KillFails(ps) THEN ps ELSE "killed"

\* variant of SelectTimeout: the select also takes the cancellation of main's
\* context as a reason to kill the process
SelectTimeoutOrCancel ==
  /\ Alive
  /\ pc = "rcwt_select"
  /\ timerFired \/ ctxDone
  /\ procState' = KillProcess(procState)
  /\ RcwtReturn(IF KillFails(procState) THEN "killfail" ELSE "timeout")
  /\ UNCHANGED <<cfgVars, startVars, mainVars, loopVars, tickerC, exitCode, obsVars, histVars>>

\* case <-ctx.Done(): kill the process; "failed to kill process" or "command timed out"
SelectTimeout ==
  /\ Alive
  /\ pc = "rcwt_select"
  /\ timerFired
  /\ procState' = KillProcess(procState)
  /\ RcwtReturn(IF KillFails(procState) THEN "killfail" ELSE "timeout")
  /\ UNCHANGED <<cfgVars, startVars, mainVars, loopVars, tickerC, exitCode, obsVars, histVars>>

Next ==
  \/ ValidateFail
  \/ ValidateOk
  \/ StartProbePlaybookFail
  \/ StartProbePlaybookOk
  \/ StartProbeGalaxyFail
  \/ StartProbeGalaxyOk
  \/ ConfigureGitFail
  \/ ConfigureGitNext
  \/ StartWatch
  \/ Shutdown
  \/ MainExit
  \/ Hang
  \/ InitNext
  \/ InitCheckoutFail
  \/ InitCheckoutOk
  \/ InitRevParseFail
  \/ InitRevParseOk
  \/ InitDone
  \/ TickerFire
  \/ StopLoop
  \/ Tick
  \/ ProbePlaybookFail
  \/ ProbePlaybookOk
  \/ ProbeGalaxyFail
  \/ ProbeGalaxyOk
  \/ ScanCancelled
  \/ ScanNext
  \/ PullCheckoutFail
  \/ PullCheckoutOk
  \/ PullFail
  \/ PullOk
  \/ HashCheckoutFail
  \/ HashCheckoutOk
  \/ HashRevParseFail
  \/ HashRevParseOk
  \/ Compare
  \/ NoChanges
  \/ RunPlaybook
  \/ RcwtStartFail
  \/ RcwtStartOk
  \/ ProcExit
  \/ WaitReturns
  \/ DeadlineElapses
  \/ SelectDone
  \/ SelectTimeout

Spec == Init /\ [][Next]_vars

\* Config.Validate applied to any assembled configuration
NextValidate ==
  \/ ValidateFail
  \/ ValidateOk

SpecValidate == InitValidate /\ [][NextValidate]_vars

\* ---- properties ----

\* pc locations of the initial-state loop
InitLocs == {"init", "init_checkout", "init_revparse"}

\* pc locations of the repository scan of a tick
ScanLocs == {"scan", "pull_checkout", "pull_pull", "hash_checkout", "hash_revparse",
             "compare"}

\* pc locations of a tick at which an external command is in flight
TickCmdLocs == {"probe_playbook", "probe_galaxy", "pull_checkout", "pull_pull",
                "hash_checkout", "hash_revparse", "rcwt_select"}

\* the set of configured repositories
Configured == {WatchRepos[k] : k \in 1..Len(WatchRepos)}

TypeOK ==
  /\ WatchRepos \in RepoLists \cup {<<>>}
  /\ config \in Configs
  /\ validateErr \in {"unset", "nil", "playbook path is required",
                      "playbook file does not exist", "inventory file does not exist",
                      "watch interval must be at least 10 seconds",
                      "at least one repository must be specified",
                      "GitHub token is required", "invalid GitHub token format"}
  /\ startupErr \in {"none", "config", "ansible", "git"}
  /\ cmdIdx \in 0..NumGitConfigCmds
  /\ mainPc \in {"validate", "start_probe_playbook", "start_probe_galaxy",
                 "configure_git", "wait", "sleep", "exit", "fatal"}
  /\ ctxDone \in BOOLEAN
  /\ pc \in InitLocs \cup ScanLocs \cup
            {"notstarted", "select", "stopped", "probe_playbook", "probe_galaxy", "rcwt_start", "rcwt_select"}
  /\ i \in 1..(MaxListLen + 1)
  /\ DOMAIN repoStates \subseteq Repos
  /\ \A r \in DOMAIN repoStates : repoStates[r] \in Revs
  /\ todo \subseteq Repos
  /\ repo \in Repos \cup {NoRepo}
  /\ lastHash \in Revs \cup {NoRev}
  /\ currentHash \in Revs \cup {NoRev}
  /\ changesDetected \in BOOLEAN
  /\ tickerC \in BOOLEAN
  /\ procState \in {"none", "running", "exited", "reaped", "killed"}
  /\ hung \in BOOLEAN
  /\ exitCode \in {0, 1}
  /\ deadlineArmed \in BOOLEAN
  /\ timerFired \in BOOLEAN
  /\ result \in {"none", "nil", "start", "exit", "timeout", "killfail"}
  /\ checked \subseteq Repos /\ changed \subseteq Repos /\ failed \subseteq Repos
  /\ prevFailed \subseteq Repos
  /\ runs \in 0..1
  /\ tickEnd \in {"none", "open", "skipped", "cancelled", "scanned"}
  /\ prevRunFailed \in BOOLEAN
  /\ dropped \in BOOLEAN

\* C1 (as stated): a tick in which some tracked repository's resolved revision
\* differed from the stored one has invoked runPlaybook exactly once when it ends,
\* whether the scan ran to its end or was cut short by a cancellation request.
C1_OnceUnderAnyInterleaving ==
  (tickEnd \in {"scanned", "cancelled"} /\ changed # {}) => runs = 1

\* C1 (amended): a tick whose scan runs to its end and finds at least one changed
\* repository invokes runPlaybook exactly once, whatever the number of changed
\* repositories; no tick invokes it more than once; a scan cut short by
\* cancellation invokes it not at all.
C1_OncePerCompletedScan ==
  /\ runs <= 1
  /\ (tickEnd = "scanned" /\ changed # {}) => runs = 1
  /\ tickEnd = "cancelled" => runs = 0

\* C1 witness: a completed scan with two changed repositories and one run
C1_Witness == tickEnd = "scanned" /\ Cardinality(changed) >= 2 /\ runs = 1

\* C2: in a tick in which no tracked repository's resolved revision differs from
\* its stored revision (every check failing included), runPlaybook is never
\* invoked and runCommandWithTimeout is never entered.
C2_NoChangeNoRun ==
  changed = {} => (runs = 0 /\ pc \notin {"rcwt_start", "rcwt_select"})

\* C2 witness: a completed scan in which every check failed, without a run
C2_Witness ==
  /\ tickEnd = "scanned"
  /\ pc = "select"
  /\ failed # {}
  /\ failed = checked
  /\ changed = {}
  /\ runs = 0

\* C3: failure isolation.  A failed check leaves the rest of the scan pending
\* (between two checks the pending keys are exactly the unchecked ones), a scan
\* ends early only on cancellation, a completed scan has checked every tracked
\* repository whatever failed, and a change found next to a failure still
\* gives the single run.
C3_FailureIsolation ==
  /\ (pc = "scan" /\ tickEnd = "open") => todo = (DOMAIN repoStates) \ checked
  /\ tickEnd = "cancelled" => ctxDone
  /\ tickEnd = "scanned" => checked = DOMAIN repoStates
  /\ (tickEnd = "scanned" /\ failed # {} /\ changed # {}) => runs = 1

\* C3 witness: one repository failed, another changed, one run
C3_Witness ==
  /\ tickEnd = "scanned"
  /\ failed # {}
  /\ changed # {}
  /\ failed \cup changed = checked
  /\ runs = 1

\* C4 (as stated): every configured repository, one whose initial lookup failed
\* included, is checked in every tick that scans.
C4_FailedLookupRetried == tickEnd = "scanned" => Configured \subseteq checked

\* C5: a repository whose check failed in this tick keeps its entry and its
\* stored revision, does not count as changed, the changed flag is set only when
\* some repository did change, and the next scanning tick checks the
\* repositories that failed in the tick before.
C5_FailureLeavesState ==
  /\ \A r \in failed :
       /\ r \in DOMAIN repoStates
       /\ r \in DOMAIN snap
       /\ repoStates[r] = snap[r]
       /\ r \notin changed
  /\ (pc \in ScanLocs /\ changesDetected) => changed # {}
  /\ tickEnd = "scanned" => prevFailed \subseteq checked

\* C5 witness: a repository failed in two scanning ticks in a row, no change seen
C5_Witness ==
  /\ tickEnd = "scanned"
  /\ failed # {}
  /\ prevFailed \cap failed # {}
  /\ changed = {}
  /\ ~changesDetected

\* C6: after initialization the map changes only when a check resolves a
\* revision different from the stored one; that step stores the resolved
\* revision, sets the changed flag and is the only update of that repository
\* in the tick; every other entry keeps the revision it had at tick start.
C6_StateInv ==
  pc \notin InitLocs =>
    /\ \A r \in (DOMAIN repoStates) \ changed :
         tickEnd # "none" => (r \in DOMAIN snap /\ repoStates[r] = snap[r])
    /\ \A r \in changed :
         r \in DOMAIN repoStates /\ r \in DOMAIN snap /\ repoStates[r] # snap[r]

C6_UpdateStep ==
  (pc \notin InitLocs /\ repoStates' # repoStates) =>
    /\ pc = "compare"
    /\ currentHash # repoStates[repo]
    /\ repoStates' = [repoStates EXCEPT ![repo] = currentHash]
    /\ changesDetected'
    /\ repo \notin changed
    /\ changed' = changed \cup {repo}

C6_OnlyUpdateOnChange == [](C6_StateInv) /\ [][C6_UpdateStep]_vars

\* C6 witness: a repository was updated to its newly resolved revision
C6_Witness ==
  /\ pc = "scan"
  /\ changesDetected
  /\ \E r \in changed : repoStates[r] # snap[r]

\* C7: a check that resolves the stored revision changes neither the map nor
\* the changed flag, and a completed scan in which no repository changed
\* leaves the map as it was at tick start and makes no run.
C7_UnchangedStep ==
  (pc = "compare" /\ pc' = "scan" /\ currentHash = repoStates[repo]) =>
    /\ repoStates' = repoStates
    /\ changesDetected' = changesDetected
    /\ changed' = changed

C7_StateInv ==
  (tickEnd = "scanned" /\ changed = {}) =>
     (repoStates = snap /\ ~changesDetected /\ runs = 0)

C7_Idempotent == [](C7_StateInv) /\ [][C7_UnchangedStep]_vars

\* C7 witness: a completed scan in which every check succeeded and none changed
C7_Witness ==
  /\ tickEnd = "scanned"
  /\ checked # {}
  /\ failed = {}
  /\ changed = {}
  /\ repoStates = snap

\* C8: a tick whose tool probe failed has checked no repository, modified no
\* stored revision and made no run, and the loop is back at the select (which
\* it leaves only for the next tick or on cancellation).
C8_ProbeFailureSkipsTick ==
  tickEnd = "skipped" =>
    /\ checked = {}
    /\ changed = {}
    /\ failed = {}
    /\ runs = 0
    /\ repoStates = snap
    /\ (pc = "select" \/ (pc = "stopped" /\ ctxDone))

\* C8 witness: a skipped tick with repositories tracked and no cancellation
C8_Witness ==
  /\ tickEnd = "skipped"
  /\ pc = "select"
  /\ ~ctxDone
  /\ DOMAIN repoStates # {}

\* C9 (as stated): every external command in flight during a tick has a
\* deadline armed.
C9_EveryCommandHasDeadline ==
  (pc \in TickCmdLocs /\ procState = "running") => deadlineArmed

\* C10: runCommandWithTimeout never returns with the process running; when the
\* select takes the elapsed deadline while the process has not completed, the
\* process is killed and the error is the timeout error; the timeout error,
\* the exit error and the start error each identify their own outcome.
C10_StateInv ==
  /\ procState = "running" =>
       (pc \in UntimedLocs \cup {"rcwt_select"} \/ mainPc \in MainCmdLocs)
  /\ result = "timeout" => procState = "killed"
  /\ result \in {"nil", "exit"} => procState = "reaped"
  /\ result = "exit" => exitCode # 0
  /\ result = "start" => procState = "none"

C10_TimeoutStep ==
  (pc = "rcwt_select" /\ pc' # pc /\ procState \in {"running", "exited"}) =>
    /\ timerFired
    /\ procState' = "killed"
    /\ result' = "timeout"

C18_Failing(c, repos) ==
  << c.PlaybookPath = "",
     c.PlaybookPath \notin Files,
     c.InventoryPath # "" /\ c.InventoryPath \notin Files,
     ~(c.WatchInterval >= 10),
     ~(Len(repos) >= 1),
     Len(c.GitHubToken) = 0,
     ~(Len(c.GitHubToken) >= 40) >>

C18_Errors ==
  << "playbook path is required",
     "playbook file does not exist",
     "inventory file does not exist",
     "watch interval must be at least 10 seconds",
     "at least one repository must be specified",
     "GitHub token is required",
     "invalid GitHub token format" >>

C18_FirstFailure(c, repos) ==
  LET f == {k \in 1..7 : C18_Failing(c, repos)[k]}
  IN  IF f = {} THEN "nil"
      ELSE C18_Errors[CHOOSE k \in f : \A j \in f : k <= j]

C18_StateInv ==
  validateErr # "unset" =>
    /\ validateErr = C18_FirstFailure(config, WatchRepos)
    /\ LET pathsOk == /\ config.PlaybookPath \in Files
                      /\ config.InventoryPath \in Files \cup {""}
           reposOk == pathsOk /\ config.WatchInterval >= 10 /\ WatchRepos # <<>>
       IN  /\ (pathsOk /\ config.WatchInterval = 9)
                => validateErr = "watch interval must be at least 10 seconds"
           /\ (pathsOk /\ config.WatchInterval = 10)
                => validateErr # "watch interval must be at least 10 seconds"
           /\ (pathsOk /\ config.WatchInterval >= 10 /\ WatchRepos = <<>>)
                => validateErr = "at least one repository must be specified"
           /\ (reposOk /\ Len(config.GitHubToken) = 39)
                => validateErr = "invalid GitHub token format"
           /\ (reposOk /\ Len(config.GitHubToken) = 40) => validateErr = "nil"

C18_ConfigKept == config' = config /\ WatchRepos' = WatchRepos

C18_ValidateOrder == [](C18_StateInv) /\ [][C18_ConfigKept]_vars

\* C18 witness: a configuration at both boundaries (interval 10, token of 40
\* characters) was accepted
C18_Witness ==
  /\ validateErr = "nil"
  /\ config.WatchInterval = 10
  /\ Len(config.GitHubToken) = 40
  /\ config.InventoryPath # ""

\* C19: the watch goroutine exists only after Validate returned nil and the
\* startup probe succeeded; a failed validation or a failed startup probe ends
\* the process with a non-zero status with no repository looked up, no tick and
\* no run; the result of Validate is set once and main never returns to it.
C19_StateInv ==
  /\ pc # "notstarted" =>
       /\ validateErr = "nil"
       /\ Validate(config, WatchRepos) = "nil"
       /\ startupErr = "none"
  /\ validateErr \notin {"unset", "nil"} => (mainPc = "fatal" /\ startupErr = "config")
  /\ startupErr # "none" => mainPc = "fatal"
  /\ mainPc = "fatal" =>
       /\ ExitStatus = 1
       /\ startupErr # "none"
       /\ pc = "notstarted"
       /\ repoStates = EmptyMap
       /\ tickEnd = "none"
       /\ runs = 0

C19_ValidateOnce ==
  /\ validateErr # "unset" => validateErr' = validateErr
  /\ mainPc' = "validate" => mainPc = "validate"

C19_NoLoopWithoutStartup == [](C19_StateInv) /\ [][C19_ValidateOnce]_vars

\* C19 witness: validation passed, the startup probe failed, the process exited
C19_Witness ==
  /\ mainPc = "fatal"
  /\ validateErr = "nil"
  /\ startupErr = "ansible"
  /\ pc = "notstarted"

\* C11: a failed playbook run (start failure, non-zero exit, timeout, failed
\* kill) leaves the watch loop at its select; the loop is stopped only when the
\* context is cancelled; the step that leaves the select after a failed run is
\* an ordinary tick, which starts with the probe and whose scan begins with
\* every tracked repository still to be checked.
C11_RunFailed == result \notin {"none", "nil"}

C11_StateInv ==
  /\ C11_RunFailed => (pc = "select" \/ (pc = "stopped" /\ ctxDone))
  /\ prevRunFailed =>
       /\ pc \in {"probe_playbook", "probe_galaxy", "select", "stopped"} \cup ScanLocs
       /\ tickEnd \in {"open", "scanned"}
       /\ runs = 0
       /\ snap = repoStates
  /\ (prevRunFailed /\ pc = "scan" /\ checked = {}) => todo = DOMAIN repoStates
  /\ tickEnd = "scanned" => checked = DOMAIN repoStates

C11_TickAfterFailure ==
  /\ (pc \in {"rcwt_start", "rcwt_select"} /\ pc' \notin {"rcwt_start", "rcwt_select"})
       => pc' = "select"
  /\ (C11_RunFailed /\ pc = "select" /\ pc' # "select") =>
       \/ pc' = "probe_playbook" /\ tickerC /\ prevRunFailed'
       \/ pc' = "stopped" /\ ctxDone

C11_FailedRunKeepsLoop == [](C11_StateInv) /\ [][C11_TickAfterFailure]_vars

\* C11 witness: the tick after a failed run passed the probe and is about to
\* scan all tracked repositories
C11_Witness ==
  /\ prevRunFailed
  /\ pc = "scan"
  /\ checked = {}
  /\ todo = DOMAIN repoStates
  /\ todo # {}
  /\ ~ctxDone

\* C12: one goroutine executes the ticks: a tick starts only from the select,
\* where no tick is open and no child process is running; at most one playbook
\* run is started per tick, and only after the range loop has produced every
\* key of the map with no check in progress.
C12_StateInv ==
  /\ pc \in {"rcwt_start", "rcwt_select"} =>
       /\ todo = {}
       /\ repo = NoRepo
       /\ checked = DOMAIN repoStates
       /\ tickEnd = "scanned"
       /\ runs = 1
  /\ runs <= 1
  /\ pc \in {"select", "stopped"} => (procState # "running" /\ tickEnd # "open")
  /\ tickEnd = "open" => pc \in {"probe_playbook", "probe_galaxy", "stopped"} \cup ScanLocs
  /\ procState = "running" /\ pc \in ScanLocs => runs = 0

C12_TickStep ==
  /\ (tickEnd' = "open" /\ tickEnd # "open") =>
       (pc = "select" /\ pc' = "probe_playbook" /\ procState # "running")
  /\ runs' > runs => (pc = "scan" /\ todo = {} /\ runs = 0)
  /\ (pc \in {"rcwt_start", "rcwt_select"}) =>
       (checked' = checked /\ repoStates' = repoStates /\ changed' = changed)

C12_TicksSerialized == [](C12_StateInv) /\ [][C12_TickStep]_vars

\* C12 witness: the playbook runs after both repositories were checked, and a
\* firing of the ticker is waiting for the run to finish
C12_Witness ==
  /\ pc = "rcwt_select"
  /\ procState = "running"
  /\ tickerC
  /\ Cardinality(checked) >= 2

\* C13 (as stated): every firing of the ticker during a tick leads to a tick of
\* its own after the current one: no firing during a tick is lost.
C13_NoFiringLost == ~dropped

\* C13 (amended): ticker.C retains at most one firing; a firing during a tick is
\* lost only when an earlier one is already waiting; the waiting firing stays
\* until the loop is back at the select and is consumed by the start of exactly
\* one tick.
C13_StateInv == dropped => (tickerC /\ pc # "notstarted")

C13_TickerStep ==
  /\ (tickerC /\ ~tickerC') => (pc = "select" /\ pc' = "probe_playbook")
  /\ (dropped' /\ ~dropped) => (tickerC /\ tickerC' /\ pc # "select" /\ pc' = pc)
  /\ (pc # "select" /\ tickerC) => tickerC'

C13_OneFiringRetained == [](C13_StateInv) /\ [][C13_TickerStep]_vars

\* C13 witness: while the playbook runs, a firing found ticker.C full and was lost
C13_Witness ==
  /\ dropped
  /\ tickerC
  /\ pc = "rcwt_select"
  /\ procState = "running"

\* C14 (as stated): the scan visits the tracked repositories in the order of
\* config.WatchRepos: each iteration takes the not yet visited repository that
\* comes first in the list.
C14_FirstConfigured(S) ==
  WatchRepos[CHOOSE k \in 1..Len(WatchRepos) :
               /\ WatchRepos[k] \in S
               /\ \A j \in 1..(k - 1) : WatchRepos[j] \notin S]

C14_StateInv ==
  pc \in ScanLocs =>
    /\ checked \cap todo = {}
    /\ checked \cup todo = DOMAIN repoStates
    /\ (pc # "scan") => repo \in checked

C14_ScanStep ==
  (pc = "scan" /\ pc' = "pull_checkout") =>
    /\ repo' \in todo
    /\ repo' \notin checked
    /\ todo' = todo \ {repo'}
    /\ checked' = checked \cup {repo'}

C15_StateInv ==
  /\ pc = "stopped" => ctxDone
  /\ tickEnd = "cancelled" => (pc = "stopped" /\ ctxDone /\ runs = 0 /\ todo # {})

C15_CancelStep ==
  /\ ctxDone => ~(pc = "scan" /\ pc' = "pull_checkout")
  /\ ctxDone => checked' \subseteq checked
  /\ (ctxDone /\ pc = "scan" /\ todo # {} /\ pc' # pc) =>
       (pc' = "stopped" /\ tickEnd' = "cancelled")
  /\ pc = "stopped" => pc' = "stopped"

C15_ScanObservesCancel == [](C15_StateInv) /\ [][C15_CancelStep]_vars

\* C15 witness: the context was cancelled during the check of one repository;
\* the next iteration returned with the other repository unvisited
C15_Witness ==
  /\ tickEnd = "cancelled"
  /\ pc = "stopped"
  /\ checked # {}
  /\ todo # {}

\* C16 (as stated): when main returns after the shutdown signal, the watch loop
\* has observed the cancellation and stopped.
C16_LoopStoppedAtExit == mainPc = "exit" => pc = "stopped"

\* C16 (amended): on the shutdown signal main cancels the context, sleeps one
\* second and returns with status 0 without looking at the watch loop: the
\* context is cancelled whenever main sleeps or has returned, main returns only
\* from that sleep, and the loop may still be inside a tick when it does.
C16_StateInv ==
  /\ mainPc \in {"sleep", "exit"} => ctxDone
  /\ ctxDone => mainPc \in {"sleep", "exit"}
  /\ mainPc = "exit" => ExitStatus = 0
  /\ mainPc \in {"wait", "sleep", "exit"} => pc # "notstarted"

C16_ShutdownStep ==
  /\ (mainPc = "wait" /\ mainPc' # "wait") => (mainPc' = "sleep" /\ ctxDone')
  /\ (mainPc' = "exit" /\ mainPc # "exit") => (mainPc = "sleep" /\ pc' = pc)
  /\ mainPc = "exit" => (pc' = pc /\ procState' = procState)

C16_CancelSleepReturn == [](C16_StateInv) /\ [][C16_ShutdownStep]_vars

\* C16 witness: main has returned while the playbook of the current tick is
\* still running
C16_Witness ==
  /\ mainPc = "exit"
  /\ pc = "rcwt_select"
  /\ procState = "running"
  /\ ctxDone

\* C17: the select in runCommandWithTimeout waits on the command's own timeout
\* context only: a child process is killed only by a step taken at that select
\* with its timeout elapsed, and the cancellation of main's context changes
\* neither the process nor that timeout.
C17_KillStep ==
  /\ (procState' = "killed" /\ procState # "killed") => (pc = "rcwt_select" /\ timerFired)
  /\ (ctxDone' /\ ~ctxDone) =>
       /\ procState' = procState
       /\ timerFired' = timerFired
       /\ deadlineArmed' = deadlineArmed
       /\ pc' = pc
  /\ (pc = "rcwt_select" /\ pc' # pc /\ ~timerFired) =>
       (procState = "reaped" /\ procState' = "reaped")

C17_StateInv ==
  /\ result \in {"timeout", "killfail"} => pc \in {"select", "stopped"}
  /\ procState = "killed" => result = "timeout"

C17_OnlyTimeoutKills == [](C17_StateInv) /\ [][C17_KillStep]_vars

\* C17 witness: the context is cancelled, the playbook is still running and its
\* timeout has not elapsed
C17_Witness ==
  /\ ctxDone
  /\ pc = "rcwt_select"
  /\ procState = "running"
  /\ ~timerFired
  /\ mainPc = "sleep"

\* C20: once the initial loop is over the key set of repoStates is fixed: no
\* step of a tick adds or removes a key, the only write is the assignment of a
\* new revision to the key being checked, and the keys are always among the
\* configured repositories (a repository listed twice has one entry).
C20_StateInv ==
  /\ DOMAIN repoStates \subseteq Configured
  /\ Cardinality(DOMAIN repoStates) <= Len(WatchRepos)
  /\ tickEnd # "none" => DOMAIN repoStates = DOMAIN snap

C20_KeysStep ==
  pc \notin InitLocs \cup {"notstarted"} =>
    /\ DOMAIN repoStates' = DOMAIN repoStates
    /\ repoStates' # repoStates =>
         /\ pc = "compare"
         /\ repo \in DOMAIN repoStates
         /\ \A r \in DOMAIN repoStates : r # repo => repoStates'[r] = repoStates[r]

C20_KeySetFixed == [](C20_StateInv) /\ [][C20_KeysStep]_vars

\* C20 witness: a repository listed twice has one entry, and a completed scan
\* overwrote its revision
C20_Witness ==
  /\ WatchRepos = <<1, 1>>
  /\ DOMAIN repoStates = {1}
  /\ tickEnd = "scanned"
  /\ changed = {1}
  /\ repoStates # snap

\* C21: the revision of a changed repository is stored when the change is
\* detected and no later step takes it back: after a failed playbook run the
\* repositories found changed hold revisions different from those the tick
\* started with and all others hold the same; the next tick starts from these
\* stored revisions, and if its scan ends without detecting a change it does
\* not run the playbook; a run is started only in a tick that detected a change.
C21_StateInv ==
  /\ (result \notin {"none", "nil"}) =>
       /\ changed # {}
       /\ \A r \in DOMAIN repoStates :
            (r \in changed) <=> (repoStates[r] # snap[r])
  /\ (prevRunFailed /\ tickEnd = "scanned") =>
       /\ runs = 0
       /\ changed = {}
       /\ repoStates = snap
       /\ pc \in {"select", "stopped"}

C21_CommitStep ==
  /\ pc \in {"rcwt_start", "rcwt_select"} => repoStates' = repoStates
  /\ (tickEnd' = "open" /\ tickEnd # "open") =>
       (repoStates' = repoStates /\ snap' = repoStates)
  /\ runs' > runs => (changesDetected /\ changed # {} /\ ~prevRunFailed)

C21_NoRetryWithoutChange == [](C21_StateInv) /\ [][C21_CommitStep]_vars

\* C21 witness: the tick after a failed playbook run scanned every tracked
\* repository, found no new revision and ended without a run
C21_Witness ==
  /\ prevRunFailed
  /\ tickEnd = "scanned"
  /\ checked # {}
  /\ checked = DOMAIN repoStates
  /\ failed = {}
  /\ runs = 0
  /\ pc = "select"

\* C22 (as stated, second half): when cancellation arrives during or after the
\* last repository check of a scan that detected a change, the playbook run of
\* that tick is started: the process does not end with such a scan left
\* without its run.
C22_RunStillStarted ==
  (mainPc = "exit" /\ pc \in ScanLocs /\ todo = {} /\ changesDetected) => runs = 1

\* C22 (amended): an iteration that finds the context cancelled returns at once
\* without a playbook run, keeping the revisions already stored in this scan;
\* with no iteration left, a scan that detected a change goes on to the
\* playbook run whether or not the context is cancelled, as long as the process
\* is alive: main returns one second after the signal, and nothing is started
\* after that.
C22_StateInv ==
  /\ tickEnd = "cancelled" => (runs = 0 /\ pc = "stopped" /\ todo # {})
  /\ (pc = "scan" /\ todo = {}) => tickEnd = "open"
  /\ runs = 1 => (todo = {} /\ tickEnd = "scanned")

C22_CancelStep ==
  /\ (ctxDone /\ pc = "scan" /\ todo # {} /\ pc' # pc) =>
       /\ pc' = "stopped"
       /\ runs' = runs
       /\ repoStates' = repoStates
       /\ changed' = changed
  /\ (pc = "scan" /\ todo = {} /\ changesDetected /\ pc' # pc) =>
       (pc' = "rcwt_start" /\ runs' = runs + 1)
  /\ runs' > runs => mainPc # "exit"
  /\ mainPc = "exit" => (pc' = pc /\ runs' = runs)

C22_CancelBeforeCheckOnly == [](C22_StateInv) /\ [][C22_CancelStep]_vars

\* C22 witness: the scan stored the new revision of one repository, then found
\* the context cancelled before the next one and returned without a run
C22_Witness ==
  /\ tickEnd = "cancelled"
  /\ changesDetected
  /\ changed # {}
  /\ repoStates # snap
  /\ todo # {}
  /\ runs = 0

====
